---- MODULE Spec2Model ----
\* bevy_register_in_world: the ledger of registered types, the registration
\* protocol (World / DeferredWorld / on_add hook), the AddSystems request queue
\* and its drain in the AddingSystems schedule, placed after Last.
EXTENDS Integers, Sequences, FiniteSets, TLC

\* ---------------------------------------------------------------- bounds

\* number of AddSystems requests that may be sent in one behaviour
MaxRequests == 3
\* number of runs of the main schedule order (App::update) in one behaviour
MaxCycles == 3
\* number of nested register calls the stack holds
MaxDepth == 3

\* ------------------------------------------------------- schedule labels

\* add_systems.rs: `pub struct AddingSystems;` (the reserved label)
AddingSystems == "AddingSystems"
\* bevy_app labels used by app.rs and by the crate's documentation
Last == "Last"
Update == "Update"

\* MainScheduleOrder before the plugin is built (the labels the model runs)
DefaultOrder == <<Update, Last>>

\* the system the plugin adds to AddingSystems; requested system sets are
\* numbered from 1
add_requested_systems_id == 0

\* -------------------------------------------------------- type identities

\* a concrete (monomorphized) type: the generic it instantiates and its
\* parameters
Ty(g, p) == [generic |-> g, params |-> p]

G_i32_bool == Ty("GenericComponent", <<"i32", "bool">>)
G_bool_i32 == Ty("GenericComponent", <<"bool", "i32">>)
Reentrant == Ty("Reentrant", <<>>)
Reserved == Ty("Reserved", <<>>)
NoType == Ty("", <<>>)

Types == {G_i32_bool, G_bool_i32, Reentrant, Reserved}

\* two types whose callbacks register each other
Ping == Ty("Ping", <<>>)
Pong == Ty("Pong", <<>>)
MutualTypes == {Ping, Pong}

AllTypes == Types \cup MutualTypes

\* TypeId::of::<T>() keeps only the generic template (faulty variant)
TypeId_of_template(T) == <<T.generic, <<>>>>

\* TypeId::of::<T>(): one identity per concrete instantiation
TypeId_of(T) == <<T.generic, T.params>>

\* ------------------------------------------------ registration callbacks

Step(op, label, ty) == [op |-> op, label |-> label, ty |-> ty]

\* <T as RegisterInWorld>::register, as a script of the calls it makes on its
\* DeferredWorld:
\*   GenericComponent<A, B>: world.add_systems(Update, system::<A, B>)   (lib.rs doc)
\*   Reentrant: registers itself and another type, then queues a command
\*   Reserved:  sends one request, then one with the reserved label
\*   Ping:      registers Pong, then queues a command
\*   Pong:      registers Ping
Callback(T) ==
    CASE T.generic = "GenericComponent" -> <<Step("add_systems", Update, NoType)>>
      [] T = Reentrant -> <<Step("register", "", Reentrant),
                            Step("register", "", G_i32_bool),
                            Step("command", "", NoType)>>
      [] T = Reserved -> <<Step("add_systems", Last, NoType),
                           Step("add_systems", AddingSystems, NoType)>>
      [] T = Ping -> <<Step("register", "", Pong), Step("command", "", NoType)>>
      [] T = Pong -> <<Step("register", "", Ping)>>
      [] OTHER -> <<>>

\* ------------------------------------------------------------------ state

VARIABLES
    ledger,     \* Resource RegisteredTypes: [present, types]
    events,     \* Resource ConsumableEvents<AddSystems>: [present, queue]
    schedules,  \* Schedules: label -> sequence of system ids, in merge order
    order,      \* MainScheduleOrder.labels
    built,      \* RegisterInWorldPlugin::build has run
    commands,   \* the world's command queue
    cycle,      \* number of the current run of the main schedule order
    pc,         \* index in order of the schedule that runs next (past the
                \* end: every schedule of the order has run in this cycle)
    drained,    \* add_requested_systems has run in the current cycle
    called,     \* per type: invocations of T::register
    completed,  \* per type: invocations of T::register that returned
    hist,       \* per type: returns of RegisteredTypes::register::<T>()
    returned,   \* types with a register::<T> call that has returned
    direct,     \* types marked through RegisteredTypes::register directly
    sent,       \* per request id: its label, the cycle and the position in
                \* the order it was sent at, and whether add_requested_systems
                \* had already run in that cycle
    merges,     \* <<request id, cycle>>: merged into its schedule in that cycle
    runs,       \* <<system id, label, cycle>>: executed in that schedule run
    sub,        \* the World of a SubApp of the App: its own resources, command
                \* queue and call history
    last        \* the last call, how it ended and what a user on_add saw

vars == <<ledger, events, schedules, order, built, commands, cycle, pc, drained,
          called, completed, hist, returned, direct, sent, merges, runs, sub,
          last>>

\* what the user's on_add function saw when it ran
NotRun == [ran |-> FALSE, registered |-> FALSE, called |-> 0, fresh |-> FALSE]

NoCall ==
    [op |-> "none", handle |-> "", ty |-> NoType, label |-> "", panic |-> "none",
     inCallback |-> FALSE, unmarked |-> FALSE, user |-> NotRun]

\* the call `op` made through `handle`, and how the world w it produced ended
Call(op, handle, ty, label, w) ==
    [op |-> op, handle |-> handle, ty |-> ty, label |-> label, panic |-> w.panic,
     inCallback |-> w.inCallback, unmarked |-> w.unmarked, user |-> NotRun]

\* a World without the resources of this crate and with no call made on it
NewWorld ==
    [ledger |-> [present |-> FALSE, types |-> {}],
     events |-> [present |-> FALSE, queue |-> <<>>],
     commands |-> <<>>,
     called |-> [T \in AllTypes |-> 0], completed |-> [T \in AllTypes |-> 0],
     hist |-> [T \in AllTypes |-> [first |-> "none", trues |-> 0]],
     returned |-> {}, sent |-> <<>>, panic |-> "none", inCallback |-> FALSE,
     depth |-> 0, unmarked |-> FALSE]

Init ==
    /\ ledger = [present |-> FALSE, types |-> {}]
    /\ events = [present |-> FALSE, queue |-> <<>>]
    /\ schedules = [l \in {Update, Last} |-> <<>>]
    /\ order = DefaultOrder
    /\ built = FALSE
    /\ commands = <<>>
    /\ cycle = 1
    /\ pc = 1
    /\ drained = FALSE
    /\ called = [T \in AllTypes |-> 0]
    /\ completed = [T \in AllTypes |-> 0]
    /\ hist = [T \in AllTypes |-> [first |-> "none", trues |-> 0]]
    /\ returned = {}
    /\ direct = {}
    /\ sent = <<>>
    /\ merges = {}
    /\ runs = {}
    /\ sub = NewWorld
    /\ last = NoCall

\* ------------------------------------------------------------- the ledger

\* RegisteredTypes::is_registered::<T>()
is_registered(T) == TypeId_of(T) \in ledger.types

\* HashSet::insert answers "already there" (faulty variant)
RegisteredTypes_register_inverted(types, T) ==
    [ret |-> TypeId_of(T) \in types, types |-> types \cup {TypeId_of(T)}]

\* RegisteredTypes::register::<T>(): HashSet::insert, true iff newly inserted
RegisteredTypes_register(types, T) ==
    [ret |-> TypeId_of(T) \notin types, types |-> types \cup {TypeId_of(T)}]

\* the record of the returns of RegisteredTypes::register::<T>()
MarkHist(h, T, ret) ==
    [h EXCEPT ![T] = [first |-> IF @.first = "none"
                                THEN (IF ret THEN "true" ELSE "false")
                                ELSE @.first,
                      trues |-> @.trues + (IF ret THEN 1 ELSE 0)]]

\* ------------------------------------------------- the world during a call

\* the part of the state a call on a world handle reads and writes; panic is
\* the panic that is unwinding ("none": the call is running or has returned),
\* depth the number of registration callbacks that are executing, unmarked
\* whether one of them was entered with its type not in the ledger
TheWorld ==
    [ledger |-> ledger, events |-> events, commands |-> commands,
     called |-> called, completed |-> completed, hist |-> hist,
     returned |-> returned, sent |-> sent, panic |-> "none",
     inCallback |-> FALSE, depth |-> 0, unmarked |-> FALSE]

Panic(w, what) == [w EXCEPT !.panic = what]

\* AddSystems::new without its assert (faulty variant)
AddSystems_new_unchecked(schedule, systems) ==
    [panic |-> FALSE, event |-> [schedule |-> schedule, systems |-> systems]]

\* AddSystems::new: asserts that the label is not AddingSystems
AddSystems_new(schedule, systems) ==
    [panic |-> schedule = AddingSystems,
     event |-> [schedule |-> schedule, systems |-> systems]]

\* the request is sent before its label is checked (faulty variant)
DeferredWorld_add_systems_send_first(w, schedule) ==
    IF ~w.events.present THEN Panic(w, "no_events")
    ELSE LET e == AddSystems_new(schedule, Len(w.sent) + 1)
             w1 == [w EXCEPT !.events.queue = Append(@, e.event),
                             !.sent = Append(@, [schedule |-> schedule, cycle |-> cycle,
                                                 pc |-> pc, afterDrain |-> drained])]
         IN IF e.panic THEN Panic(w1, "reserved_label") ELSE w1

\* <DeferredWorld as WorldAddSystems>::add_systems: resource_mut on the queue,
\* then AddSystems::new (its argument), then send
DeferredWorld_add_systems(w, schedule) ==
    IF ~w.events.present THEN Panic(w, "no_events")
    ELSE LET e == AddSystems_new(schedule, Len(w.sent) + 1) IN
         IF e.panic THEN Panic(w, "reserved_label")
         ELSE [w EXCEPT !.events.queue = Append(@, e.event),
                        !.sent = Append(@, [schedule |-> schedule, cycle |-> cycle,
                                            pc |-> pc, afterDrain |-> drained])]

\* the World handle drops the request instead of sending it (faulty variant)
World_add_systems_dropped(w, schedule) ==
    IF ~w.events.present THEN Panic(w, "no_events")
    ELSE IF AddSystems_new(schedule, Len(w.sent) + 1).panic
         THEN Panic(w, "reserved_label") ELSE w

\* <World as WorldAddSystems>::add_systems: the same call through
\* Into::<DeferredWorld>::into(self)
World_add_systems(w, schedule) == DeferredWorld_add_systems(w, schedule)

\* the flush is left out (faulty variant)
flush_commands_skipped(w) == w

\* World::flush_commands: applies and empties the command queue
flush_commands(w) == [w EXCEPT !.commands = <<>>]

RECURSIVE DeferredWorld_register(_, _), T_register(_, _), RunCallback(_, _, _)

\* one call of a registration callback on its DeferredWorld
ExecStep(w, s) ==
    CASE s.op = "add_systems" -> DeferredWorld_add_systems(w, s.label)
      [] s.op = "register" -> DeferredWorld_register(w, s.ty)
      [] s.op = "command" -> [w EXCEPT !.commands = Append(@, "command")]

\* the body of a callback from its i-th call on; a panic unwinds through it
RunCallback(w, script, i) ==
    IF w.panic # "none" \/ i > Len(script) THEN w
    ELSE RunCallback(ExecStep(w, script[i]), script, i + 1)

\* T::register(world)
T_register(w, T) ==
    LET w1 == [w EXCEPT !.called[T] = @ + 1,
                        !.depth = @ + 1,
                        !.unmarked = @ \/ TypeId_of(T) \notin w.ledger.types]
        w2 == RunCallback(w1, Callback(T), 1)
    IN IF w2.panic = "none"
       THEN [w2 EXCEPT !.completed[T] = @ + 1, !.depth = @ - 1]
       ELSE [w2 EXCEPT !.inCallback = TRUE]

\* the callback is invoked first and the type marked when it has returned
\* (faulty variant)
DeferredWorld_register_mark_after(w, T) ==
    IF ~w.ledger.present THEN Panic(w, "no_ledger")
    ELSE IF w.depth >= MaxDepth THEN Panic(w, "stack_overflow")
    ELSE LET unregistered == TypeId_of(T) \notin w.ledger.types
             w1 == IF unregistered THEN T_register(w, T) ELSE w
             r == RegisteredTypes_register(w1.ledger.types, T)
         IN IF w1.panic = "none"
            THEN [w1 EXCEPT !.ledger.types = r.types,
                            !.hist = MarkHist(@, T, r.ret),
                            !.returned = @ \cup {T}]
            ELSE w1

\* <DeferredWorld as RegisterExtension>::register::<T>(); a call nested deeper
\* than the stack holds overflows it
DeferredWorld_register(w, T) ==
    IF ~w.ledger.present THEN Panic(w, "no_ledger")
    ELSE IF w.depth >= MaxDepth THEN Panic(w, "stack_overflow")
    ELSE LET r == RegisteredTypes_register(w.ledger.types, T)
             w1 == [w EXCEPT !.ledger.types = r.types,
                             !.hist = MarkHist(@, T, r.ret)]
             w2 == IF r.ret THEN T_register(w1, T) ELSE w1
         IN IF w2.panic = "none" THEN [w2 EXCEPT !.returned = @ \cup {T}] ELSE w2

\* World::get_resource_or_insert_with::<RegisteredTypes>(Default::default)
get_resource_or_insert_with(w) ==
    IF w.ledger.present THEN w
    ELSE [w EXCEPT !.ledger = [present |-> TRUE, types |-> {}]]

\* flush_commands is called after the `if`, also when T was already
\* registered (faulty variant)
World_register_always_flush(w, T) ==
    LET w0 == get_resource_or_insert_with(w)
        r == RegisteredTypes_register(w0.ledger.types, T)
        w1 == [w0 EXCEPT !.ledger.types = r.types,
                         !.hist = MarkHist(@, T, r.ret)]
        w2 == IF r.ret THEN T_register(w1, T) ELSE w1
    IN IF w2.panic = "none"
       THEN [flush_commands(w2) EXCEPT !.returned = @ \cup {T}] ELSE w2

\* <World as RegisterExtension>::register::<T>()
World_register(w, T) ==
    LET w0 == get_resource_or_insert_with(w)
        r == RegisteredTypes_register(w0.ledger.types, T)
        w1 == [w0 EXCEPT !.ledger.types = r.types,
                         !.hist = MarkHist(@, T, r.ret)]
        w2 == IF r.ret
              THEN LET c == T_register(w1, T) IN
                   IF c.panic = "none" THEN flush_commands(c) ELSE c
              ELSE w1
    IN IF w2.panic = "none" THEN [w2 EXCEPT !.returned = @ \cup {T}] ELSE w2

\* component::register_on_add::<T>(world)
register_on_add(w, T) == DeferredWorld_register(w, T)

\* the world a call leaves behind, also when it panicked
Commit(w) ==
    /\ Len(w.sent) <= MaxRequests
    /\ ledger' = w.ledger
    /\ events' = w.events
    /\ commands' = w.commands
    /\ called' = w.called
    /\ completed' = w.completed
    /\ hist' = w.hist
    /\ returned' = w.returned
    /\ sent' = w.sent

\* ---------------------------------------------------------------- actions

\* world.register::<T>() on a World
RegisterWorld(T) ==
    LET w == World_register(TheWorld, T) IN
    /\ Commit(w)
    /\ last' = Call("register", "World", T, "", w)
    /\ UNCHANGED <<sub, schedules, order, built, cycle, pc, drained, direct, merges,
                   runs>>

\* world.register::<T>() on a DeferredWorld
RegisterDeferred(T) ==
    LET w == DeferredWorld_register(TheWorld, T) IN
    /\ Commit(w)
    /\ last' = Call("register", "DeferredWorld", T, "", w)
    /\ UNCHANGED <<sub, schedules, order, built, cycle, pc, drained, direct, merges,
                   runs>>

\* what the user's on_add function finds when it runs in world w for a hook
\* that fired in world w0
UserOnAdd(w0, w, T) ==
    [ran |-> TRUE, registered |-> TypeId_of(T) \in w.ledger.types,
     called |-> w.called[T], fresh |-> TypeId_of(T) \notin w0.ledger.types]

\* the generated hook runs the user's function before register_on_add
\* (faulty variant)
on_add_hook_user_first(w, T, user) ==
    LET w1 == register_on_add(w, T) IN
    [world |-> w1, user |-> IF user THEN UserOnAdd(w, w, T) ELSE NotRun]

\* the closure hook_register_on_add_call generates for hooks.on_add:
\* register_on_add::<Self>(world.reborrow()), then the user's on_add function
\* when one is given; a panic of the first unwinds past the second
on_add_hook(w, T, user) ==
    LET w1 == register_on_add(w, T) IN
    [world |-> w1,
     user |-> IF user /\ w1.panic = "none" THEN UserOnAdd(w, w1, T) ELSE NotRun]

\* an instance of a ComponentAutoRegister type is added: its on_add hook fires
OnAdd(T, user) ==
    LET h == on_add_hook(TheWorld, T, user) IN
    /\ Commit(h.world)
    /\ last' = [Call("on_add", "DeferredWorld", T, "", h.world) EXCEPT
                    !.user = h.user]
    /\ UNCHANGED <<sub, schedules, order, built, cycle, pc, drained, direct, merges, runs>>

\* world.resource_mut::<RegisteredTypes>().register::<T>(), the public method
\* of the resource called directly
MarkDirect(T) ==
    /\ ledger.present
    /\ LET r == RegisteredTypes_register(ledger.types, T) IN
       /\ ledger' = [ledger EXCEPT !.types = r.types]
       /\ hist' = MarkHist(hist, T, r.ret)
       /\ direct' = IF r.ret THEN direct \cup {T} ELSE direct
    /\ last' = [NoCall EXCEPT !.op = "mark", !.ty = T]
    /\ UNCHANGED <<sub, events, schedules, order, built, commands, cycle, pc, drained,
                   called, completed, returned, sent, merges, runs>>

\* world.add_systems(label, systems) through either handle
AddSystemsCall(handle, label) ==
    LET w == IF handle = "World" THEN World_add_systems(TheWorld, label)
             ELSE DeferredWorld_add_systems(TheWorld, label) IN
    /\ Commit(w)
    /\ last' = Call("add_systems", handle, NoType, label, w)
    /\ UNCHANGED <<sub, schedules, order, built, cycle, pc, drained, direct, merges,
                   runs>>

\* sub_app.register::<T>() on a SubApp: self.world_mut().register::<T>(), on
\* the SubApp's own World
RegisterSubApp(T) ==
    LET w == World_register(sub, T) IN
    /\ sub' = [w EXCEPT !.panic = "none", !.inCallback = FALSE, !.depth = 0,
                        !.unmarked = FALSE]
    /\ last' = Call("register", "SubApp", T, "", w)
    /\ UNCHANGED <<ledger, events, schedules, order, built, commands, cycle, pc,
                   drained, called, completed, hist, returned, direct, sent,
                   merges, runs>>

\* ------------------------------------------------- the plugin and a cycle

Range(q) == {q[i] : i \in 1..Len(q)}

\* init_resource overwrites a ledger that is already there (faulty variant)
init_resource_overwrite(l) == [present |-> TRUE, types |-> {}]

\* App::init_resource::<RegisteredTypes>(): keeps a resource that is there
init_resource(l) == IF l.present THEN l ELSE [present |-> TRUE, types |-> {}]

\* App::add_persistent_consumable_event::<AddSystems>(): installs the queue;
\* persistent: nothing clears unconsumed events between cycles
add_persistent_consumable_event(e) ==
    IF e.present THEN e ELSE [present |-> TRUE, queue |-> <<>>]

\* a queue added with add_consumable_event is cleared between cycles
\* (faulty variant: the wrong kind of queue)
volatile_update(queue) == <<>>

\* what the end of a cycle does to a queue added with
\* add_persistent_consumable_event: unconsumed events stay
persistent_update(queue) == queue

\* the label is put in front of `after` (faulty variant)
insert_before(labels, after, label) ==
    LET i == CHOOSE k \in 1..Len(labels) : labels[k] = after IN
    SubSeq(labels, 1, i - 1) \o <<label>> \o SubSeq(labels, i, Len(labels))

\* MainScheduleOrder::insert_after(after, label)
insert_after(labels, after, label) ==
    LET i == CHOOSE k \in 1..Len(labels) : labels[k] = after IN
    SubSeq(labels, 1, i) \o <<label>> \o SubSeq(labels, i + 1, Len(labels))

\* Schedules::add_systems(label, systems): creates the schedule when missing
Schedules_add_systems(s, label, systems) ==
    IF label \in DOMAIN s THEN [s EXCEPT ![label] = Append(@, systems)]
    ELSE s @@ (label :> <<systems>>)

\* reading hands the events over and leaves them queued (faulty variant)
read_and_consume_all_keep(queue) == [read |-> queue, left |-> queue]

\* ConsumableEventReader::read_and_consume_all(): hands over every queued
\* event, in the order sent, and leaves none
read_and_consume_all(queue) == [read |-> queue, left |-> <<>>]

RECURSIVE MergeAll_reversed(_, _, _)

\* the loop takes the events read from the last sent to the first
\* (faulty variant)
MergeAll_reversed(s, read, i) ==
    IF i > Len(read) THEN s
    ELSE LET e == read[Len(read) + 1 - i] IN
         MergeAll_reversed(Schedules_add_systems(s, e.schedule, e.systems),
                           read, i + 1)

RECURSIVE MergeAll(_, _, _)

\* the loop of add_requested_systems over the events read, from the i-th on
MergeAll(s, read, i) ==
    IF i > Len(read) THEN s
    ELSE MergeAll(Schedules_add_systems(s, read[i].schedule, read[i].systems),
                  read, i + 1)

\* RegisterInWorldPlugin::build
Build ==
    /\ ~built
    /\ built' = TRUE
    /\ ledger' = init_resource(ledger)
    /\ events' = add_persistent_consumable_event(events)
    /\ order' = insert_after(order, Last, AddingSystems)
    /\ schedules' = Schedules_add_systems(
                        IF AddingSystems \in DOMAIN schedules THEN schedules
                        ELSE schedules @@ (AddingSystems :> <<>>),
                        AddingSystems, add_requested_systems_id)
    /\ last' = NoCall
    /\ UNCHANGED <<sub, commands, cycle, pc, drained, called, completed, hist, returned,
                   direct, sent, merges, runs>>

\* Main::run_main runs the next schedule of the order: its systems execute
RunSchedule ==
    /\ built
    /\ pc <= Len(order)
    /\ order[pc] # AddingSystems
    /\ runs' = runs \cup {<<sys, order[pc], cycle>> : sys \in Range(schedules[order[pc]])}
    /\ pc' = pc + 1
    /\ last' = NoCall
    /\ UNCHANGED <<sub, ledger, events, schedules, order, built, commands, cycle, drained,
                   called, completed, hist, returned, direct, sent, merges>>

\* add_requested_systems, run by the AddingSystems schedule
Drain ==
    /\ built
    /\ pc <= Len(order)
    /\ order[pc] = AddingSystems
    /\ add_requested_systems_id \in Range(schedules[AddingSystems])
    /\ ~drained
    /\ LET r == read_and_consume_all(events.queue) IN
       /\ schedules' = MergeAll(schedules, r.read, 1)
       /\ events' = [events EXCEPT !.queue = r.left]
       /\ merges' = merges \cup {<<e.systems, cycle>> : e \in Range(r.read)}
    /\ runs' = runs \cup {<<add_requested_systems_id, AddingSystems, cycle>>}
    /\ drained' = TRUE
    /\ pc' = pc + 1
    /\ last' = NoCall
    /\ UNCHANGED <<sub, ledger, order, built, commands, cycle, called, completed, hist,
                   returned, direct, sent>>

\* every schedule of the order has run: App::update returns and the next one
\* starts at the head of the order
EndCycle ==
    /\ built
    /\ pc = Len(order) + 1
    /\ cycle < MaxCycles
    /\ cycle' = cycle + 1
    /\ pc' = 1
    /\ drained' = FALSE
    /\ events' = [events EXCEPT !.queue = persistent_update(@)]
    /\ last' = NoCall
    /\ UNCHANGED <<sub, ledger, schedules, order, built, commands, called,
                   completed, hist, returned, direct, sent, merges, runs>>

Handles == {"World", "DeferredWorld"}

\* the labels add_systems is called with
SendLabels == {Update, Last, AddingSystems}

\* the type whose registrations are followed through the cycles: its callback
\* sends a request (the crate's documented use)
CycleTypes == {G_i32_bool}

\* Registration: the plugin, every registration path for every type, and
\* add_systems calls, in a world whose schedules are not running
Next ==
    \/ \E T \in Types : RegisterWorld(T)
    \/ \E T \in Types : RegisterDeferred(T)
    \/ \E T \in Types, user \in BOOLEAN : OnAdd(T, user)
    \/ \E h \in Handles, l \in SendLabels : AddSystemsCall(h, l)
    \/ Build

Spec == Init /\ [][Next]_vars

\* The cycles: the plugin, the runs of the main schedule order, the drain, and
\* the requests sent at any point of a cycle, by add_systems on the World or
\* by a registration callback on its DeferredWorld
NextCycle ==
    \/ \E T \in CycleTypes : RegisterDeferred(T)
    \/ \E l \in SendLabels : AddSystemsCall("World", l)
    \/ Build
    \/ RunSchedule
    \/ Drain
    \/ EndCycle

SpecCycle == Init /\ [][NextCycle]_vars

\* The ledger used directly: the registration paths and the public method of
\* the resource
NextLedger ==
    \/ \E T \in Types : RegisterWorld(T)
    \/ \E T \in Types : RegisterDeferred(T)
    \/ \E T \in Types : MarkDirect(T)
    \/ Build

SpecLedger == Init /\ [][NextLedger]_vars

\* The plugin built in a world that is already in use: registrations through
\* the World (as App::register does) before and after the build, requests from
\* a DeferredWorld, and the cycles
NextPlugin ==
    \/ \E T \in CycleTypes : RegisterWorld(T)
    \/ AddSystemsCall("DeferredWorld", Update)
    \/ Build
    \/ RunSchedule
    \/ Drain
    \/ EndCycle

SpecPlugin == Init /\ [][NextPlugin]_vars

\* the types whose callbacks register a type that is being registered
ReentrantTypes == {Reentrant} \cup MutualTypes

\* Re-entrant registration: every registration path for the types whose
\* callbacks call register themselves, and the plugin
NextReentrant ==
    \/ \E T \in ReentrantTypes : RegisterWorld(T)
    \/ \E T \in ReentrantTypes : RegisterDeferred(T)
    \/ \E T \in ReentrantTypes, user \in BOOLEAN : OnAdd(T, user)
    \/ Build

SpecReentrant == Init /\ [][NextReentrant]_vars

\* the types registered in the App and in its SubApp
AppTypes == {G_i32_bool} \cup MutualTypes

\* An App with a SubApp: register::<T> on the App (its main World) and on the
\* SubApp (its own World), and the plugin, which is built on the App
NextApps ==
    \/ \E T \in AppTypes : RegisterWorld(T)
    \/ \E T \in AppTypes : RegisterSubApp(T)
    \/ Build

SpecApps == Init /\ [][NextApps]_vars

\* ------------------------------------------------------------ properties

RegisterOps == {"register", "on_add"}

\* the position of a label in the main schedule order
Pos(l) == CHOOSE k \in 1..Len(order) : order[k] = l

\* the requests still queued
Queued == {e.systems : e \in Range(events.queue)}

\* C1: within one world, whatever the sequence and the paths of the
\* register::<T> calls, T::register is never invoked a second time, and it has
\* been invoked exactly once as soon as one such call has returned.
C1_CallbackExactlyOnce ==
    \A T \in Types : called[T] <= 1 /\ (T \in returned => called[T] = 1)

\* G<i32, bool> was registered by Reentrant's callback or before it, and the
\* call that has just returned is one more firing of its on_add hook
C1_Witness ==
    /\ last.op = "on_add" /\ last.ty = G_i32_bool /\ last.panic = "none"
    /\ called[Reentrant] = 1 /\ completed[Reentrant] = 1
    /\ G_i32_bool \in returned
    /\ called[G_i32_bool] = 1 /\ completed[G_i32_bool] = 1

\* C2: the ledger only grows (a registered type stays registered), and
\* RegisteredTypes::register::<T>() returns true on the first call for an
\* identity and on no later call.
C2_LedgerMonotone ==
    [][/\ ledger.types \subseteq ledger'.types
       /\ \A T \in Types : is_registered(T) => is_registered(T)'
       /\ \A T \in Types : hist'[T].first # "none" =>
                               hist'[T].first = "true" /\ hist'[T].trues = 1]_vars

\* a second register::<G<i32, bool>> has returned: the mark answered false
C2_Witness ==
    /\ last.op = "register" /\ last.ty = G_i32_bool /\ last.panic = "none"
    /\ completed[Reentrant] = 1 /\ hist[G_i32_bool].first = "true"
    /\ is_registered(G_i32_bool) /\ is_registered(Reserved)

\* C3: every request sent in cycle k before add_requested_systems consumes
\* the queue is merged into its target schedule by the drain of cycle k and is
\* no longer queued once that drain has run.
C3_DrainAppliesAll ==
    \A id \in 1..Len(sent) :
        (~sent[id].afterDrain /\ (cycle > sent[id].cycle \/ drained)) =>
            /\ <<id, sent[id].cycle>> \in merges
            /\ id \in Range(schedules[sent[id].schedule])
            /\ id \notin Queued

\* the drain of cycle 2 has run over three requests sent in that cycle, one
\* of them by a registration callback, one while AddingSystems was next to run
C3_Witness ==
    /\ drained /\ cycle = 2 /\ Len(sent) = 3 /\ called[G_i32_bool] = 1
    /\ \A id \in 1..3 : sent[id].cycle = 2 /\ ~sent[id].afterDrain
    /\ \E id \in 1..3 : order[sent[id].pc] = AddingSystems
    /\ Queued = {}

\* C4: a request sent in cycle k before the drain of cycle k leaves its target
\* schedule without the requested systems until that drain; the systems run
\* in no schedule run of cycle k, and they run in the target schedule's run of
\* cycle k+1.
C4_VisibleNextCycle ==
    \A id \in 1..Len(sent) :
        LET k == sent[id].cycle
            target == sent[id].schedule
        IN /\ \A r \in runs : r[1] = id => r[2] = target /\ r[3] >= k + 1
           /\ ~sent[id].afterDrain =>
                /\ (cycle = k /\ ~drained) => id \notin Range(schedules[target])
                /\ (cycle > k + 1 \/ (cycle = k + 1 /\ pc > Pos(target))) =>
                        <<id, target, k + 1>> \in runs

\* a request for Update sent in cycle 1 before Update ran: Update has run in
\* cycle 1 without its systems and in cycle 2 with them
C4_Witness ==
    \E id \in 1..Len(sent) :
        /\ sent[id].schedule = Update /\ sent[id].cycle = 1 /\ sent[id].pc = 1
        /\ <<id, Update, 1>> \notin runs
        /\ <<id, Update, 2>> \in runs

\* C5: a request sent in cycle k once add_requested_systems has consumed the
\* queue is not merged by that drain: it stays queued until the drain of
\* cycle k+1, which merges it; a drain merges only requests that were queued
\* when it consumed the queue.
C5_NoSameCycleFeedback ==
    /\ \A id \in 1..Len(sent) :
         LET k == sent[id].cycle IN
         sent[id].afterDrain =>
            /\ <<id, k>> \notin merges
            /\ (cycle = k \/ (cycle = k + 1 /\ ~drained)) =>
                    id \in Queued /\ \A c \in 1..MaxCycles : <<id, c>> \notin merges
            /\ (cycle > k + 1 \/ (cycle = k + 1 /\ drained)) =>
                    <<id, k + 1>> \in merges /\ id \notin Queued
    /\ \A m \in merges :
         \/ sent[m[1]].cycle = m[2] /\ ~sent[m[1]].afterDrain
         \/ sent[m[1]].cycle = m[2] - 1 /\ sent[m[1]].afterDrain

\* a request sent in cycle 1 after the drain has been merged by the drain of
\* cycle 2
C5_Witness ==
    \E id \in 1..Len(sent) :
        /\ sent[id].afterDrain /\ sent[id].cycle = 1
        /\ <<id, 1>> \notin merges /\ <<id, 2>> \in merges

\* C6: add_systems with the AddingSystems label aborts, and the aborted call
\* leaves the queue, the schedules and the ledger as they were.
C6_ReservedLabelAborts ==
    [][(last'.op = "add_systems" /\ last'.label = AddingSystems) =>
          /\ last'.panic # "none"
          /\ events' = events /\ sent' = sent
          /\ schedules' = schedules
          /\ ledger' = ledger]_vars

\* the call was made on a DeferredWorld with two requests queued, and the
\* assert of AddSystems::new stopped it
C6_Witness ==
    /\ last.op = "add_systems" /\ last.label = AddingSystems
    /\ last.handle = "DeferredWorld" /\ last.panic = "reserved_label"
    /\ Len(events.queue) = 2

\* C7: no queued request targets AddingSystems, and the drain merges nothing
\* into the AddingSystems schedule: it holds only what was put there outside
\* the AddSystems path (the plugin's add_requested_systems).
C7_NoRequestTargetsAddingSystems ==
    /\ \A e \in Range(events.queue) : e.schedule # AddingSystems
    /\ \A id \in 1..Len(sent) : sent[id].schedule # AddingSystems
    /\ AddingSystems \in DOMAIN schedules =>
            Range(schedules[AddingSystems]) \subseteq {add_requested_systems_id}

\* a reserved-label call has just aborted in a cycle whose drain had merged a
\* request, with another request queued
C7_Witness ==
    /\ last.op = "add_systems" /\ last.panic = "reserved_label"
    /\ drained /\ \E m \in merges : m[2] = cycle
    /\ Queued # {}

\* the types the callback of T registers
Registers(T) == {st.ty : st \in {x \in Range(Callback(T)) : x.op = "register"}}

RECURSIVE ReachN(_, _)

ReachN(S, n) ==
    IF n = 0 THEN S ELSE ReachN(S \cup UNION {Registers(T) : T \in S}, n - 1)

\* T and the types registered, directly or not, by T's callback
Reach(T) == ReachN({T}, Cardinality(Types))

\* C8: register::<T> changes neither is_registered::<U>() nor the number of
\* invocations of U's callback for a type U other than T (and other than the
\* types T's callback registers itself), and register::<U> on a type that is
\* not registered invokes U's callback, whatever other types are registered.
C8_IdentitiesIndependent ==
    [][\A T \in Types :
          (last'.op \in RegisterOps /\ last'.ty = T) =>
             /\ \A U \in Types \ Reach(T) :
                   /\ is_registered(U)' = is_registered(U)
                   /\ called'[U] = called[U]
             /\ (~is_registered(T) /\ last'.panic # "no_ledger") =>
                   called'[T] = called[T] + 1]_vars

\* G<bool, i32> has just been registered after G<i32, bool>: each callback
\* has run once
C8_Witness ==
    /\ last.op = "register" /\ last.ty = G_bool_i32 /\ last.panic = "none"
    /\ completed[G_i32_bool] = 1 /\ completed[G_bool_i32] = 1
    /\ called[Reentrant] = 0

\* C9: a register::<T> call, through either handle and also when the ledger
\* resource is not installed, aborts only if T's callback aborts.
C9_RegisterInfallible ==
    (last.op \in RegisterOps /\ last.panic # "none") => last.inCallback

\* C10: a register::<T> call whose callback aborts on a reserved-label
\* add_systems request leaves the ledger and the queue as they were.
C10_AbortCommitsNothing ==
    [][(last'.op \in RegisterOps /\ last'.panic = "reserved_label") =>
          ledger' = ledger /\ events' = events]_vars

\* C11 as stated: add_systems branches on the handle kind; through a World the
\* system set is in the target schedule when the call returns, through a
\* DeferredWorld the request is only queued.
C11_WorldAppliesImmediately ==
    [][(last'.op = "add_systems" /\ last'.panic = "none") =>
          IF last'.handle = "World"
          THEN (Len(sent) + 1) \in Range(schedules'[last'.label])
          ELSE /\ (Len(sent) + 1) \in {e.systems : e \in Range(events'.queue)}
               /\ schedules' = schedules]_vars

\* C11: add_systems is callable from both handle kinds and does the same
\* through both: it appends one request for the label to the queue and leaves
\* every schedule as it was when the call returns.
C11_BothHandlesEnqueue ==
    [][(last'.op = "add_systems" /\ last'.panic = "none") =>
          /\ events'.queue = Append(events.queue,
                                    [schedule |-> last'.label,
                                     systems |-> Len(sent) + 1])
          /\ Len(sent') = Len(sent) + 1
          /\ schedules' = schedules]_vars

\* add_systems(Last, ..) has returned on a World: its request is the second
\* of the queue and the Last schedule is still empty
C11_Witness ==
    /\ last.op = "add_systems" /\ last.handle = "World" /\ last.panic = "none"
    /\ last.label = Last /\ Len(events.queue) = 2
    /\ events.queue[2].schedule = Last /\ events.queue[2].systems = Len(sent)
    /\ schedules[Last] = <<>>

\* C12: the on_add hook of a ComponentAutoRegister type calls
\* register_on_add::<T> once and before the user's on_add function: whenever
\* that function runs, from the first added instance on, T is in the ledger and
\* T::register has been invoked, exactly once.
C12_RegisteredBeforeUserOnAdd ==
    last.user.ran =>
        /\ last.op = "on_add"
        /\ last.user.registered
        /\ last.user.called = 1
        /\ is_registered(last.ty) /\ called[last.ty] = 1

\* the first instance of G<bool, i32> has been added after the plugin was
\* built: the hook registered the type, its callback sent a request, and the
\* user's on_add function ran
C12_Witness ==
    /\ last.op = "on_add" /\ last.ty = G_bool_i32 /\ last.panic = "none"
    /\ last.user.ran /\ last.user.fresh
    /\ completed[G_bool_i32] = 1 /\ Len(events.queue) >= 1

\* the build step of the plugin
IsBuild == ~built /\ built'

\* the phase order and the drain phase once the plugin is built: AddingSystems
\* comes right after Last and closes the order, add_requested_systems is its
\* only system and has run in every cycle that is over, and only the drain
\* merges requests into a schedule
PhaseAfterBuild ==
    /\ built' =>
          /\ Pos(AddingSystems)' = Pos(Last)' + 1
          /\ Pos(AddingSystems)' = Len(order')
          /\ schedules'[AddingSystems] = <<add_requested_systems_id>>
          /\ \A c \in 1..MaxCycles :
                (cycle' > c \/ (cycle' = c /\ pc' > Len(order'))) =>
                    <<add_requested_systems_id, AddingSystems, c>> \in runs'
          /\ drained' => pc' > Pos(Last)'
    /\ (schedules' # schedules \/ merges' # merges) =>
          \/ IsBuild /\ merges' = merges
          \/ /\ built /\ order[pc] = AddingSystems /\ ~drained /\ drained'
             /\ last'.op = "none"

\* C13 as stated: the build leaves the ledger and the queue empty,
\* AddingSystems runs in every cycle right after Last and closes the order,
\* and add_requested_systems is the only operation of that phase and the only
\* step that merges requests.
C13_BuildLeavesEmptyLedger ==
    [][/\ IsBuild => ledger'.types = {} /\ events'.queue = <<>>
       /\ PhaseAfterBuild]_vars

\* C13: the build installs the ledger and the queue, the queue empty and the
\* ledger with the types registered before the build (empty when it was not
\* there); AddingSystems runs in every cycle right after Last and closes the
\* order, and add_requested_systems is the only operation of that phase and
\* the only step that merges requests.
C13_BuildKeepsLedger ==
    [][/\ IsBuild =>
            /\ ledger'.present /\ events'.present
            /\ ledger'.types = ledger.types
            /\ ~ledger.present => ledger'.types = {}
            /\ events'.queue = <<>>
       /\ PhaseAfterBuild]_vars

\* G<i32, bool> was registered through the World before the plugin was built
\* and is still in the ledger in the third cycle, whose drain has run after
\* the drains of the first two merged a request each
C13_Witness ==
    /\ built /\ cycle = 3 /\ drained /\ pc > Len(order)
    /\ is_registered(G_i32_bool) /\ completed[G_i32_bool] = 0
    /\ \E a, b \in 1..Len(sent) : <<a, 1>> \in merges /\ <<b, 2>> \in merges
    /\ <<add_requested_systems_id, AddingSystems, 3>> \in runs

C15_LedgerOnlyInvoked ==
    \A T \in AllTypes : is_registered(T) => called[T] >= 1

\* C16: a World::register::<T> call that has run T's callback and returns has
\* flushed the commands: none that the callback queued is pending in the
\* world's command queue.
C16_WorldRegisterFlushes ==
    [][(/\ last'.op = "register" /\ last'.handle = "World"
        /\ last'.panic = "none"
        /\ called'[last'.ty] = called[last'.ty] + 1) =>
            commands' = <<>>]_vars

\* register::<Reentrant> has returned on a World: its callback, the only one
\* that was run through a World, had queued a command, and none is pending
C16_Witness ==
    /\ last.op = "register" /\ last.handle = "World" /\ last.ty = Reentrant
    /\ last.panic = "none"
    /\ completed[Reentrant] = 1 /\ completed[G_i32_bool] = 1
    /\ called[G_bool_i32] = 0 /\ called[Reserved] = 0
    /\ commands = <<>>

\* C17: requests for the same label are merged into its schedule in the order
\* they were sent (request ids number the sends), within one drain and over
\* the drains, whatever requests for other labels were sent between them.
C17_MergedInSendOrder ==
    \A l \in DOMAIN schedules \ {AddingSystems} :
        \A i, j \in 1..Len(schedules[l]) :
            i < j => schedules[l][i] < schedules[l][j]

\* one drain has merged three requests: the first and the third sent, for
\* Update, and between them one for Last
C17_Witness ==
    /\ drained /\ Len(sent) = 3
    /\ sent[1].schedule = Update /\ sent[2].schedule = Last
    /\ sent[3].schedule = Update
    /\ \E c \in 1..MaxCycles : \A id \in 1..3 : <<id, c>> \in merges
    /\ schedules[Update] = <<1, 3>> /\ schedules[Last] = <<2>>

\* the number of times system set id is in the schedule of label l
Count(l, id) == Cardinality({i \in 1..Len(schedules[l]) : schedules[l][i] = id})

\* the cycles whose drain merged request id
MergedIn(id) == {m[2] : m \in {x \in merges : x[1] = id}}

\* C18: each request is consumed once: a request that was sent is either
\* still queued, or it was merged by the drain of exactly one cycle and is in
\* its target schedule once and in no other schedule, over all the cycles
\* that follow, the queue being persistent.
C18_ConsumedExactlyOnce ==
    \A id \in 1..Len(sent) :
        /\ Cardinality(MergedIn(id)) <= 1
        /\ (id \in Queued) # (MergedIn(id) # {})
        /\ Count(sent[id].schedule, id) = Cardinality(MergedIn(id))
        /\ \A l \in DOMAIN schedules \ {sent[id].schedule} : Count(l, id) = 0

\* a request merged by the drain of cycle 1 is in its schedule once after the
\* drains of cycles 2 and 3 have run, the last one over an empty queue
C18_Witness ==
    /\ cycle = 3 /\ drained /\ Queued = {}
    /\ <<add_requested_systems_id, AddingSystems, 2>> \in runs
    /\ \E id \in 1..Len(sent) :
          /\ MergedIn(id) = {1}
          /\ Count(sent[id].schedule, id) = 1

\* C19: register::<T> on a type that is in the ledger, through a World or a
\* DeferredWorld, returns and leaves the ledger, the queue, the schedules and
\* the command queue as they were (no flush), and invokes no callback.
C19_RegisteredIsNoOp ==
    [][\A T \in Types :
          (last'.op = "register" /\ last'.ty = T /\ is_registered(T)) =>
              /\ last'.panic = "none"
              /\ ledger' = ledger
              /\ events' = events /\ sent' = sent
              /\ schedules' = schedules
              /\ called' = called /\ completed' = completed
              /\ commands' = commands]_vars

\* register::<Reentrant> has returned on a World with the command still
\* pending that Reentrant's callback queued when a DeferredWorld registered it
C19_Witness ==
    /\ last.op = "register" /\ last.handle = "World" /\ last.ty = Reentrant
    /\ last.panic = "none"
    /\ completed[Reentrant] = 1
    /\ commands = <<"command">>

\* C20: the ledger is marked before the callback is invoked: every callback
\* is entered with its type in the ledger, so a register::<T> made from inside
\* T's callback, directly or by the callback of a type it registers, invokes
\* nothing, and the nested calls end without overflowing the stack and
\* without a second invocation of a callback.
C20_MarkedBeforeCallback ==
    /\ ~last.unmarked
    /\ last.panic # "stack_overflow"
    /\ \A T \in AllTypes :
          /\ called[T] <= 1
          /\ called[T] = 1 => is_registered(T) /\ hist[T].trues = 1

\* register::<Ping> has returned: the callbacks of Ping and Pong, which
\* register each other, and the callback of Reentrant, which registers
\* itself, have each run once to their end
C20_Witness ==
    /\ last.op = "register" /\ last.ty = Ping /\ last.panic = "none"
    /\ completed[Ping] = 1 /\ completed[Pong] = 1
    /\ completed[Reentrant] = 1 /\ completed[G_i32_bool] = 1
    /\ {Ping, Pong, Reentrant} \subseteq returned

====
